---- MODULE Spec2Model ----
(***************************************************************************)
(* A model of modal_temstapro.py: the local launcher (main), the remote    *)
(* worker (run_temstapro) and their helpers.  File systems are modelled as *)
(* a set of directories and a map from file paths to contents; a path is   *)
(* the sequence of its components.                                         *)
(***************************************************************************)
EXTENDS Integers, Sequences, FiniteSets, TLC

VARIABLES
    pc,          \* position of main: "check", "call", "write_mean", ...
    args,        \* keyword arguments of main
    lfs,         \* the launcher's (local) file system
    out,         \* texts printed on the local stdout, in order
    err,         \* texts printed on the local stderr, in order
    results,     \* what run_temstapro.remote returned (NoResults before, and on error)
    raised,      \* the exception main ended with (NoError if none)
    calls,       \* number of run_temstapro invocations started
    wfs,         \* the worker's file system
    completed,   \* subprocess.CompletedProcess of the run (NotRun before it)
    produced,    \* what the tool wrote for each output identifier it was given
    wpc,         \* worker spec: position of each invocation of run_temstapro
    wid,         \* worker spec: the number of the invocation in each slot
    wkw,         \* worker spec: keyword arguments of each invocation
    wcompleted,  \* worker spec: the CompletedProcess of each invocation
    wret,        \* worker spec: value returned / error raised by each invocation
    wwrote,      \* worker spec: what the tool of each invocation wrote
    wstale,      \* worker spec: the scratch files each invocation found when it started
    winv,        \* worker spec: number of invocations started so far
    limit,       \* worker spec: invocations the platform lets be in flight
    gpu_env,     \* GPU spec: the GPU environment variable (None if unset)
    GPU_CONFIG,  \* GPU spec: the module-level result of _gpu_from_env
    plot_tree,   \* plot spec: the file system _gather_plot_files is run on
    listing,     \* plot spec: the order in which rglob yielded the paths
    entries      \* plot spec: the list _gather_plot_files returned

vars == <<pc, args, lfs, out, err, results, raised, calls, wfs, completed,
          produced, wpc, wid, wkw, wcompleted, wret, wwrote, wstale, winv, limit, gpu_env,
          GPU_CONFIG,
          plot_tree, listing, entries>>

launcherVars == <<pc, args, lfs, out, err, results, raised, calls, wfs,
                  completed, produced>>
workerVars == <<wpc, wid, wkw, wcompleted, wret, wwrote, wstale, winv, limit>>
gpuVars == <<gpu_env, GPU_CONFIG>>
plotVars == <<plot_tree, listing, entries>>

(***************************************************************************)
(* Bounds of the model.                                                    *)
(***************************************************************************)
MaxByte == 1          \* blobs are b"" and the one-byte blobs 1..MaxByte
MaxInvocations == 2   \* invocations of run_temstapro in the worker spec
MaxGpuLen == 4        \* length of the GPU environment variable's value

(***************************************************************************)
(* Python values.  An Optional[T] is None or Some(v).                      *)
(***************************************************************************)
None == <<>>
Some(v) == <<v>>
Ids == {"mean", "per_res", "per_segment"}

\* Truthiness of an Optional[str] holding a path / a file name: None and ""
\* are false.  A path string is modelled by its components, "" by <<>>.
TruthyPath(o) == o # None /\ o[1] # <<>>
TruthyName(o) == o # None /\ o[1] # ""

\* bytes: b"" and the one-byte blobs.
Blobs == {<<>>} \cup {<<b>> : b \in 1..MaxByte}

(***************************************************************************)
(* Paths (pathlib.Path).                                                   *)
(***************************************************************************)
PathName(p) == IF Len(p) = 0 THEN "" ELSE p[Len(p)]
PathParent(p) == IF Len(p) = 0 THEN p ELSE SubSeq(p, 1, Len(p) - 1)
IsPrefix(p, q) == Len(p) <= Len(q) /\ SubSeq(q, 1, Len(p)) = p
Prefixes(p) == {SubSeq(p, 1, n) : n \in 0..Len(p)}

REMOTE_FASTA_DIR == <<"tmp", "temstapro">>

(***************************************************************************)
(* File systems: [dirs |-> set of paths, files |-> [paths -> contents]].   *)
(***************************************************************************)
IsDir(fs, p) == p \in fs.dirs
IsFile(fs, p) == p \in DOMAIN fs.files
Exists(fs, p) == IsDir(fs, p) \/ IsFile(fs, p)

\* The regular files below the directory d.
FilesBelow(fs, d) == {p \in DOMAIN fs.files : IsPrefix(d, p) /\ p # d}

\* shutil.rmtree(p): p and everything below it is gone.
Rmtree(fs, p) ==
    [dirs  |-> {d \in fs.dirs : ~IsPrefix(p, d)},
     files |-> [f \in {g \in DOMAIN fs.files : ~IsPrefix(p, g)} |-> fs.files[f]]]

\* Path.mkdir(parents=True, exist_ok=True): fails when p or an ancestor is a file.
MkdirOk(fs, p) == \A q \in Prefixes(p) : ~IsFile(fs, q)
Mkdir(fs, p) == [fs EXCEPT !.dirs = @ \cup Prefixes(p)]

\* Path.write_bytes(data): the parent must be a directory, p must not be one.
WriteOk(fs, p) == Len(p) > 0 /\ IsDir(fs, PathParent(p)) /\ ~IsDir(fs, p)
WriteBytes(fs, p, data) ==
    [fs EXCEPT !.files = [f \in DOMAIN fs.files \cup {p} |->
                             IF f = p THEN data ELSE fs.files[f]]]

\* Every enumeration of the set S, as a sequence without repetition.
Orders(S) ==
    {s \in [1..Cardinality(S) -> S] : \A i, j \in 1..Cardinality(S) : s[i] = s[j] => i = j}

(***************************************************************************)
(* Ordering of paths: pathlib compares the tuples of components, and       *)
(* Python compares tuples element by element, a proper prefix being less.  *)
(* Strings compare by code point; CodepointOrder lists the names the model *)
(* uses in that order.                                                     *)
(***************************************************************************)
CodepointOrder == <<"a", "b", "c", "sub">>
Rank(n) == CHOOSE i \in 1..Len(CodepointOrder) : CodepointOrder[i] = n
StrLess(a, b) == Rank(a) < Rank(b)

RECURSIVE PathLess(_, _)
PathLess(p, q) ==
    IF p = <<>> THEN q # <<>>
    ELSE IF q = <<>> THEN FALSE
    ELSE IF Head(p) = Head(q) THEN PathLess(Tail(p), Tail(q))
    ELSE StrLess(Head(p), Head(q))

\* sorted(...): insertion of each element of the iterable into a sorted list.
RECURSIVE InsertSorted(_, _)
InsertSorted(p, s) ==
    IF s = <<>> THEN <<p>>
    ELSE IF PathLess(p, Head(s)) THEN <<p>> \o s
    ELSE <<Head(s)>> \o InsertSorted(p, Tail(s))

RECURSIVE Sorted(_)
Sorted(lst) == IF lst = <<>> THEN <<>> ELSE InsertSorted(Head(lst), Sorted(Tail(lst)))

\* str(path): the components joined by "/" (a text is a sequence of tokens).
RECURSIVE PathStr(_)
PathStr(p) ==
    IF Len(p) = 0 THEN <<".">>
    ELSE IF Len(p) = 1 THEN <<p[1]>>
    ELSE <<p[1], "/">> \o PathStr(Tail(p))

\* Path(text): split at "/" (the texts here are relative, without "." or "..").
RECURSIVE PathOf(_)
PathOf(t) ==
    IF t = <<>> \/ t = <<".">> THEN <<>>
    ELSE IF Head(t) = "/" THEN PathOf(Tail(t))
    ELSE <<Head(t)>> \o PathOf(Tail(t))

(***************************************************************************)
(* The remote worker.  A file of the worker's file system is a record      *)
(* [data |-> its bytes, inv |-> the invocation whose step wrote it].       *)
(***************************************************************************)
OutputsPath == REMOTE_FASTA_DIR \o <<"outputs">>
PlotsPath == REMOTE_FASTA_DIR \o <<"plots">>

\* PrepareReset without rmtree.
PrepareResetKeep(fs) == Mkdir(fs, REMOTE_FASTA_DIR)

\* _prepare_workdir, lines 81-83: the scratch directory is removed and recreated.
PrepareReset(fs) ==
    Mkdir(IF Exists(fs, REMOTE_FASTA_DIR) THEN Rmtree(fs, REMOTE_FASTA_DIR) ELSE fs,
          REMOTE_FASTA_DIR)

\* _prepare_workdir, lines 85-90: outputs/ and plots/ are created.
PrepareSubdirs(fs) == Mkdir(Mkdir(fs, OutputsPath), PlotsPath)

_prepare_workdir(fs, fasta_name) ==
    [fs           |-> PrepareSubdirs(PrepareReset(fs)),
     input_path   |-> REMOTE_FASTA_DIR \o <<fasta_name>>,
     outputs_path |-> OutputsPath,
     plots_path   |-> PlotsPath]

\* run_temstapro, lines 160-166: outputs_path / name if name else None.
OutputPath(outputs_path, name) ==
    IF TruthyName(name) THEN Some(outputs_path \o <<name[1]>>) ELSE None

\* run_temstapro, lines 168-198: the command line, by the options that name files.
Cmd(kw, input_path, outputs_path, plots_path) ==
    [f        |-> input_path,
     output   |-> [k \in Ids |-> OutputPath(outputs_path, kw.names[k])],
     plot_dir |-> IF kw.include_plots THEN Some(plots_path) ELSE None]

\* CollectFiles looking for outputs/<identifier> instead of the requested path.
CollectFilesByKey(fs, paths) ==
    [k \in Ids |-> IF paths[k] # None /\ Exists(fs, OutputsPath \o <<k>>)
                   THEN Some(fs.files[OutputsPath \o <<k>>])
                   ELSE None]

\* _collect_outputs, lines 105-114 (the files, with the invocation that wrote them).
CollectOk(fs, paths) ==
    \A k \in Ids : (paths[k] # None /\ Exists(fs, paths[k][1])) => IsFile(fs, paths[k][1])
CollectFiles(fs, paths) ==
    [k \in Ids |-> IF paths[k] # None /\ Exists(fs, paths[k][1])
                   THEN Some(fs.files[paths[k][1]])
                   ELSE None]
\* _collect_outputs reporting a missing file as empty bytes.
CollectOutputsEmptyForMissing(fs, paths) ==
    [k \in Ids |-> IF CollectFiles(fs, paths)[k] = None
                   THEN (IF paths[k] # None THEN Some(<<>>) ELSE None)
                   ELSE Some(CollectFiles(fs, paths)[k][1].data)]

_collect_outputs(fs, paths) ==
    [k \in Ids |-> IF CollectFiles(fs, paths)[k] = None THEN None
                   ELSE Some(CollectFiles(fs, paths)[k][1].data)]

\* plot_dir.rglob("*"): every path below plot_dir; the order is the file system's.
Descendants(fs, d) ==
    IF ~IsDir(fs, d) THEN {}
    ELSE {p \in fs.dirs \cup DOMAIN fs.files : IsPrefix(d, p) /\ p # d}

RelativeTo(p, d) == SubSeq(p, Len(d) + 1, Len(p))

\* _gather_plot_files, lines 123-128, on the sorted paths.
RECURSIVE PlotEntries(_, _, _)
PlotEntries(fs, plot_dir, paths) ==
    IF paths = <<>> THEN <<>>
    ELSE (IF IsFile(fs, Head(paths))
          THEN << <<PathStr(RelativeTo(Head(paths), plot_dir)), fs.files[Head(paths)]>> >>
          ELSE <<>>)
         \o PlotEntries(fs, plot_dir, Tail(paths))

\* GatherFiles without sorted().
GatherFilesUnsorted(fs, plot_dir, yielded) ==
    IF ~Exists(fs, plot_dir) THEN <<>>
    ELSE PlotEntries(fs, plot_dir, yielded)

\* _gather_plot_files, lines 117-128; yielded is the order rglob produced.
GatherFiles(fs, plot_dir, yielded) ==
    IF ~Exists(fs, plot_dir) THEN <<>>
    ELSE PlotEntries(fs, plot_dir, Sorted(yielded))

\* The (relative path, bytes) pairs of a list of (relative path, file) pairs.
PlotPayload(es) == [i \in 1..Len(es) |-> <<es[i][1], es[i][2].data>>]

_gather_plot_files(fs, plot_dir, yielded) == PlotPayload(GatherFiles(fs, plot_dir, yielded))

\* _env_prepare, lines 96-97: the cache directories exist afterwards.
HF_CACHE_ROOT == <<"cache", "hf">>
EMBEDDINGS_CACHE_ROOT == <<"cache", "embeddings">>
PROTTRANS_DIR == HF_CACHE_ROOT \o <<"prottrans">>
_env_prepare(fs) == Mkdir(Mkdir(Mkdir(fs, HF_CACHE_ROOT), EMBEDDINGS_CACHE_ROOT), PROTTRANS_DIR)

(***************************************************************************)
(* The subprocess (lines 200-205).  What the external tool does is not     *)
(* decided by this script: an outcome o is drawn from ToolOutcomes and     *)
(* says the exit code, the captured texts, the bytes the tool makes for    *)
(* each output option it is given, the order in which it writes them, and  *)
(* the plot files it makes.  The tool needs its input file and the         *)
(* directories it is told to write to; without them it exits nonzero.      *)
(***************************************************************************)
ReturnCodes == {0, 1, -9}
StdoutTexts == {<<>>, <<"o", "k">>}
StderrTexts == {<<>>, <<"w">>}
PlotSets == {<<>>,
             (<<"a">> :> <<>>),
             (<<"a">> :> <<1>>) @@ (<<"sub", "b">> :> <<>>)}

\* The outcomes drawn for a command line: files and plots only for the options
\* the command line carries, a writing order only where two options name one
\* file; the captured texts vary where the tool wrote nothing, and are
\* "ok" / "w" where it wrote.
Collide(cmd) ==
    \E j, k \in Ids : j # k /\ cmd.output[j] # None /\ cmd.output[j] = cmd.output[k]

ToolOutcomes(cmd) ==
    LET mades  == {m \in [Ids -> {None} \cup {Some(b) : b \in Blobs}] :
                     \A k \in Ids : cmd.output[k] = None => m[k] = None}
        orders == IF Collide(cmd) THEN Orders(Ids)
                  ELSE {<<"mean", "per_res", "per_segment">>}
        plots  == IF cmd.plot_dir = None THEN {<<>>} ELSE PlotSets
    IN  [rc : ReturnCodes, stdout : {<<"o", "k">>}, stderr : {<<"w">>},
         made : mades, order : orders, plots : plots]
        \cup
        [rc : ReturnCodes, stdout : StdoutTexts, stderr : StderrTexts,
         made : {[k \in Ids |-> None]},
         order : {<<"mean", "per_res", "per_segment">>}, plots : {<<>>}]

ToolCanRun(fs, cmd) ==
    /\ IsFile(fs, cmd.f)
    /\ \A k \in Ids : cmd.output[k] # None => IsDir(fs, PathParent(cmd.output[k][1]))
    /\ cmd.plot_dir # None => IsDir(fs, cmd.plot_dir[1])

RECURSIVE ToolOutputs(_, _, _, _, _)
ToolOutputs(fs, cmd, o, inv, i) ==
    IF i > Len(o.order) THEN fs
    ELSE LET k == o.order[i]
             can == /\ cmd.output[k] # None
                    /\ o.made[k] # None
                    /\ WriteOk(fs, cmd.output[k][1])
         IN  ToolOutputs(IF can
                         THEN WriteBytes(fs, cmd.output[k][1],
                                         [data |-> o.made[k][1], inv |-> inv])
                         ELSE fs,
                         cmd, o, inv, i + 1)

ToolPlots(fs, cmd, o, inv) ==
    IF cmd.plot_dir = None THEN fs
    ELSE LET targets == {cmd.plot_dir[1] \o r : r \in DOMAIN o.plots}
         IN  [dirs  |-> fs.dirs \cup UNION {Prefixes(PathParent(t)) : t \in targets},
              files |-> [f \in DOMAIN fs.files \cup targets |->
                            IF f \in targets
                            THEN [data |-> o.plots[RelativeTo(f, cmd.plot_dir[1])],
                                  inv |-> inv]
                            ELSE fs.files[f]]]

\* What the tool made for each output identifier whose option it was given.
ToolWrote(fs, cmd, o) ==
    [k \in Ids |-> IF ToolCanRun(fs, cmd) /\ cmd.output[k] # None THEN o.made[k] ELSE None]

NotRun == [ran |-> FALSE]

ToolRun(fs, cmd, o, inv) ==
    IF ToolCanRun(fs, cmd)
    THEN [fs        |-> ToolPlots(ToolOutputs(fs, cmd, o, inv, 1), cmd, o, inv),
          completed |-> [ran |-> TRUE, returncode |-> o.rc,
                         stdout |-> o.stdout, stderr |-> o.stderr]]
    ELSE [fs        |-> fs,
          completed |-> [ran |-> TRUE, returncode |-> IF o.rc = 0 THEN 1 ELSE o.rc,
                         stdout |-> o.stdout, stderr |-> o.stderr]]

(***************************************************************************)
(* The error of lines 207-211.  A text is a sequence of tokens; str(int)   *)
(* is the decimal numeral, with a sign when negative.                      *)
(***************************************************************************)
Digit == <<"0", "1", "2", "3", "4", "5", "6", "7", "8", "9">>

RECURSIVE Numeral(_)
Numeral(n) ==
    IF n < 10 THEN <<Digit[n + 1]>> ELSE Numeral(n \div 10) \o <<Digit[(n % 10) + 1]>>

IntStr(n) == IF n < 0 THEN <<"-">> \o Numeral(0 - n) ELSE Numeral(n)

\* FailureMessage without the captured stderr.
FailureMessageNoStderr(c) ==
    <<"TemStaPro execution failed with return code ">> \o IntStr(c.returncode)
    \o <<"\nSTDOUT:\n">> \o c.stdout

FailureMessage(c) ==
    <<"TemStaPro execution failed with return code ">> \o IntStr(c.returncode)
    \o <<"\nSTDOUT:\n">> \o c.stdout \o <<"\nSTDERR:\n">> \o c.stderr

NoError == [type |-> "none"]
NoResults == [kind |-> "none"]

(***************************************************************************)
(* run_temstapro, in the steps the worker spec interleaves.                *)
(***************************************************************************)
\* lines 156-158: caches, scratch directory, the input staged.
Staged(fs, kw, inv) ==
    LET w == _prepare_workdir(_env_prepare(fs), kw.fasta_name)
    IN  [ok  |-> WriteOk(w.fs, w.input_path),
         fs  |-> IF WriteOk(w.fs, w.input_path)
                 THEN WriteBytes(w.fs, w.input_path, [data |-> kw.fasta_bytes, inv |-> inv])
                 ELSE w.fs,
         cmd |-> Cmd(kw, w.input_path, w.outputs_path, w.plots_path)]

\* Returned without the test of the exit code.
ReturnedIgnoringExitCode(fs, cmd, kw, c, yielded) ==
    [raised |-> NoError,
     result |-> [kind   |-> "result",
                 stdout |-> c.stdout,
                 stderr |-> c.stderr,
                 files  |-> _collect_outputs(fs, cmd.output),
                 plots  |-> IF kw.include_plots
                            THEN _gather_plot_files(fs, PlotsPath, yielded)
                            ELSE <<>>]]

\* lines 207-228: the error, or the result collected from the file system.
Returned(fs, cmd, kw, c, yielded) ==
    IF c.returncode # 0
    THEN [raised |-> [type |-> "RuntimeError", msg |-> FailureMessage(c)],
          result |-> NoResults]
    ELSE IF ~CollectOk(fs, cmd.output)
    THEN [raised |-> [type |-> "IsADirectoryError"], result |-> NoResults]
    ELSE [raised |-> NoError,
          result |-> [kind   |-> "result",
                      stdout |-> c.stdout,
                      stderr |-> c.stderr,
                      files  |-> _collect_outputs(fs, cmd.output),
                      plots  |-> IF kw.include_plots
                                 THEN _gather_plot_files(fs, PlotsPath, yielded)
                                 ELSE <<>>]]

(***************************************************************************)
(* The local launcher.                                                     *)
(***************************************************************************)
\* _write_optional_file, lines 231-235.
WriteOptionalOk(fs, output_path, payload) ==
    (TruthyPath(output_path) /\ payload # None)
        => /\ MkdirOk(fs, PathParent(output_path[1]))
           /\ WriteOk(Mkdir(fs, PathParent(output_path[1])), output_path[1])
\* _write_optional_file falling back to a default path when none was given.
WriteOptionalFileDefaultPath(fs, output_path, payload) ==
    IF payload # None
    THEN LET p == IF TruthyPath(output_path) THEN output_path[1] ELSE <<"out">>
         IN  WriteBytes(Mkdir(fs, PathParent(p)), p, payload[1])
    ELSE fs

_write_optional_file(fs, output_path, payload) ==
    IF TruthyPath(output_path) /\ payload # None
    THEN WriteBytes(Mkdir(fs, PathParent(output_path[1])), output_path[1], payload[1])
    ELSE fs

\* _write_plots, lines 238-247: [ok, fs] after the entries from the i-th on.
RECURSIVE WritePlotsFrom(_, _, _, _)
WritePlotsFrom(fs, base, plots, i) ==
    IF i > Len(plots) THEN [ok |-> TRUE, fs |-> fs]
    ELSE LET target == base \o PathOf(plots[i][1])
         IN  IF MkdirOk(fs, PathParent(target))
                /\ WriteOk(Mkdir(fs, PathParent(target)), target)
             THEN WritePlotsFrom(WriteBytes(Mkdir(fs, PathParent(target)), target,
                                            plots[i][2]),
                                 base, plots, i + 1)
             ELSE [ok |-> FALSE, fs |-> fs]

_write_plots(fs, plot_dir, plots) ==
    IF ~TruthyPath(plot_dir) THEN [ok |-> TRUE, fs |-> fs]
    ELSE IF ~MkdirOk(fs, plot_dir[1]) THEN [ok |-> FALSE, fs |-> fs]
    ELSE WritePlotsFrom(Mkdir(fs, plot_dir[1]), plot_dir[1], plots, 1)

\* main, lines 279-283: Path(p).name if p else None.
OutputName(p) == IF TruthyPath(p) THEN Some(PathName(p[1])) ELSE None

\* The local path argument of each output identifier (lines 289-291).
LocalPath(a, k) ==
    IF k = "mean" THEN a.output_path
    ELSE IF k = "per_res" THEN a.per_res_output
    ELSE a.per_segment_output

\* main, lines 270-284: the keyword arguments of the remote call.
RemoteKwargs(a, fs) ==
    [fasta_bytes   |-> fs.files[a.fasta_path],
     fasta_name    |-> PathName(a.fasta_path),
     include_plots |-> TruthyPath(a.plot_dir),
     names         |-> [k \in Ids |-> OutputName(LocalPath(a, k))]]

(***************************************************************************)
(* Spec: one run of main against a fresh worker.                           *)
(***************************************************************************)
FastaFile == <<"in", "p.fasta">>
FastaPaths == {FastaFile, <<"in", "q.fasta">>, <<"in">>, <<"in", "outputs">>}
OutputPaths == {None, Some(<<"a", "x">>), Some(<<"b", "x">>), Some(<<"a", "y">>)}
PlotDirs == {None, Some(<<"p">>)}

\* The local file system main starts on: two FASTA files, and an older a/y.
LocalFS0 ==
    [dirs  |-> {<<>>, <<"in">>, <<"a">>},
     files |-> (FastaFile :> <<1>>) @@ (<<"in", "outputs">> :> <<1>>)
               @@ (<<"a", "y">> :> <<0>>)]

\* The file system of a worker that has not run yet.
WorkerFS0 == [dirs |-> {<<>>, <<"tmp">>}, files |-> <<>>]

MainArgs ==
    [fasta_path : FastaPaths, output_path : OutputPaths, per_res_output : OutputPaths,
     per_segment_output : OutputPaths, plot_dir : PlotDirs]

LauncherIdle ==
    /\ pc = "idle" /\ args = <<>> /\ lfs = <<>> /\ out = <<>> /\ err = <<>>
    /\ results = NoResults /\ raised = NoError /\ calls = 0 /\ wfs = <<>>
    /\ completed = NotRun /\ produced = <<>>
WorkerIdle ==
    /\ wpc = <<>> /\ wid = <<>> /\ wkw = <<>> /\ wcompleted = <<>> /\ wret = <<>> /\ wwrote = <<>>
    /\ wstale = <<>> /\ winv = 0 /\ limit = 0
GpuIdle == gpu_env = None /\ GPU_CONFIG = None
PlotIdle == plot_tree = <<>> /\ listing = <<>> /\ entries = <<>>

Init ==
    /\ pc = "check"
    /\ args \in MainArgs
    /\ lfs = LocalFS0
    /\ out = <<>> /\ err = <<>>
    /\ results = NoResults
    /\ raised = NoError
    /\ calls = 0
    /\ wfs = WorkerFS0
    /\ completed = NotRun
    /\ produced = [k \in Ids |-> None]
    /\ WorkerIdle /\ GpuIdle /\ PlotIdle

\* MainCheck testing exists() where the code tests is_file().
MainCheckExists ==
    /\ pc = "check"
    /\ IF Exists(lfs, args.fasta_path)
       THEN pc' = "call" /\ raised' = raised
       ELSE pc' = "failed" /\ raised' = [type |-> "FileNotFoundError"]
    /\ UNCHANGED <<args, lfs, out, err, results, calls, wfs, completed, produced>>
    /\ UNCHANGED <<workerVars, gpuVars, plotVars>>

\* main, lines 266-268.
MainCheck ==
    /\ pc = "check"
    /\ IF IsFile(lfs, args.fasta_path)
       THEN pc' = "call" /\ raised' = raised
       ELSE pc' = "failed" /\ raised' = [type |-> "FileNotFoundError"]
    /\ UNCHANGED <<args, lfs, out, err, results, calls, wfs, completed, produced>>
    /\ UNCHANGED <<workerVars, gpuVars, plotVars>>

\* main, lines 270-287: the remote call, run_temstapro from its first line to its
\* return or error.
MainCall ==
    /\ pc = "call"
    /\ IF ~IsFile(lfs, args.fasta_path)
       THEN \* line 271: read_bytes fails while the arguments are evaluated
            /\ raised' = [type |-> IF IsDir(lfs, args.fasta_path)
                                   THEN "IsADirectoryError" ELSE "ReadError"]
            /\ pc' = "failed"
            /\ UNCHANGED <<results, completed, produced, wfs, calls>>
       ELSE
        /\ calls' = calls + 1
        /\ \E kw \in {RemoteKwargs(args, lfs)} : \E s \in {Staged(wfs, kw, 1)} :
           IF ~s.ok
           THEN /\ wfs' = s.fs
                /\ raised' = [type |-> "IsADirectoryError"]
                /\ pc' = "failed"
                /\ UNCHANGED <<results, completed, produced>>
           ELSE \E o \in ToolOutcomes(s.cmd) :
                  \E t \in {ToolRun(s.fs, s.cmd, o, 1)} :
                      \E y \in Orders(Descendants(t.fs, PlotsPath)) :
                        \E r \in {Returned(t.fs, s.cmd, kw, t.completed, y)} :
                            /\ wfs' = t.fs
                            /\ completed' = t.completed
                            /\ produced' = ToolWrote(s.fs, s.cmd, o)
                            /\ raised' = r.raised
                            /\ results' = r.result
                            /\ pc' = IF r.raised = NoError THEN "write_mean" ELSE "failed"
    /\ UNCHANGED <<args, lfs, out, err>>
    /\ UNCHANGED <<workerVars, gpuVars, plotVars>>

\* main, lines 289-291: one _write_optional_file call.
WriteStep(here, k, next) ==
    /\ pc = here
    /\ IF WriteOptionalOk(lfs, LocalPath(args, k), results.files[k])
       THEN /\ lfs' = _write_optional_file(lfs, LocalPath(args, k), results.files[k])
            /\ pc' = next
            /\ raised' = raised
       ELSE /\ lfs' = lfs
            /\ pc' = "failed"
            /\ raised' = [type |-> "OSError"]
    /\ UNCHANGED <<args, out, err, results, calls, wfs, completed, produced>>
    /\ UNCHANGED <<workerVars, gpuVars, plotVars>>

MainWriteMean == WriteStep("write_mean", "mean", "write_per_res")
MainWritePerRes == WriteStep("write_per_res", "per_res", "write_per_segment")
MainWritePerSegment == WriteStep("write_per_segment", "per_segment", "write_plots")

\* main, line 292.
MainWritePlots ==
    /\ pc = "write_plots"
    /\ LET w == _write_plots(lfs, args.plot_dir, results.plots)
       IN  /\ lfs' = w.fs
           /\ pc' = IF w.ok THEN "emit" ELSE "failed"
           /\ raised' = IF w.ok THEN raised ELSE [type |-> "OSError"]
    /\ UNCHANGED <<args, out, err, results, calls, wfs, completed, produced>>
    /\ UNCHANGED <<workerVars, gpuVars, plotVars>>

\* main, lines 294-299.
MainEmit ==
    /\ pc = "emit"
    /\ out' = IF results.stdout # <<>> THEN Append(out, results.stdout) ELSE out
    /\ err' = IF results.stderr # <<>> THEN Append(err, results.stderr) ELSE err
    /\ pc' = "done"
    /\ UNCHANGED <<args, lfs, results, raised, calls, wfs, completed, produced>>
    /\ UNCHANGED <<workerVars, gpuVars, plotVars>>

Next ==
    \/ MainCheck
    \/ MainCall
    \/ MainWriteMean
    \/ MainWritePerRes
    \/ MainWritePerSegment
    \/ MainWritePlots
    \/ MainEmit

Spec == Init /\ [][Next]_vars

(***************************************************************************)
(* Properties of Spec.                                                     *)
(***************************************************************************)
\* s occurs in t as a contiguous run of tokens.
Contains(t, s) == \E i \in 0..(Len(t) - Len(s)) : SubSeq(t, i + 1, i + Len(s)) = s

AfterCall == pc \in {"write_mean", "write_per_res", "write_per_segment",
                     "write_plots", "emit", "done"}

\* C1: once the subprocess has run, a nonzero exit code has ended the invocation
\* in the RuntimeError whose message contains the exit code, all of the captured
\* stdout and all of the captured stderr, and nothing was returned; a zero exit
\* code has not raised that error, and the result with stdout, stderr, files and
\* plots was returned.
C1_ExitCodeDecidesError ==
    completed.ran =>
        /\ completed.returncode # 0 =>
              /\ raised.type = "RuntimeError"
              /\ Contains(raised.msg, IntStr(completed.returncode))
              /\ Contains(raised.msg, completed.stdout)
              /\ Contains(raised.msg, completed.stderr)
              /\ results = NoResults
        /\ completed.returncode = 0 =>
              /\ raised.type # "RuntimeError"
              /\ results.kind = "result"
              /\ DOMAIN results = {"kind", "stdout", "stderr", "files", "plots"}
              /\ results.stdout = completed.stdout
              /\ results.stderr = completed.stderr

C1_Witness ==
    /\ completed.ran /\ completed.returncode = -9
    /\ completed.stdout # <<>> /\ completed.stderr # <<>>
    /\ raised.type = "RuntimeError" /\ pc = "failed"

\* The requested local paths are pairwise different.
DistinctLocalPaths ==
    \A j, k \in Ids :
        (j # k /\ TruthyPath(LocalPath(args, j)) /\ TruthyPath(LocalPath(args, k)))
            => LocalPath(args, j) # LocalPath(args, k)

\* C2: when main has finished without error and the requested local paths are
\* pairwise different, every requested identifier the tool produced an artifact
\* for has its local path holding exactly the bytes the tool produced for it.
C2_LocalPathHoldsProducedBytes ==
    (pc = "done" /\ DistinctLocalPaths) =>
        \A k \in Ids :
            (TruthyPath(LocalPath(args, k)) /\ produced[k] # None)
                => /\ IsFile(lfs, LocalPath(args, k)[1])
                   /\ lfs.files[LocalPath(args, k)[1]] = produced[k][1]

\* C3: when fasta_path names no regular file, main has ended in FileNotFoundError
\* with run_temstapro never invoked, no local file written and nothing printed;
\* when it names one, the worker is invoked once (and never more than once).
C3_FailFastOnMissingFasta ==
    /\ (~IsFile(LocalFS0, args.fasta_path) /\ pc # "check") =>
          /\ pc = "failed" /\ raised.type = "FileNotFoundError"
          /\ calls = 0 /\ wfs = WorkerFS0 /\ results = NoResults
          /\ lfs = LocalFS0 /\ out = <<>> /\ err = <<>>
    /\ (IsFile(LocalFS0, args.fasta_path) /\ pc \notin {"check", "call"}) => calls = 1
    /\ calls <= 1

C3_Witness ==
    /\ pc = "failed" /\ raised.type = "FileNotFoundError"
    /\ IsDir(lfs, args.fasta_path) /\ TruthyPath(args.output_path)

\* C5: a local file is written or a text printed only after the worker returned a
\* result (exit code 0); after a nonzero exit code the worker returned nothing and
\* the launcher wrote and printed nothing, whatever the tool left in the scratch
\* directory.
C5_NoPartialResults ==
    /\ (lfs # LocalFS0 \/ out # <<>> \/ err # <<>>) =>
          /\ AfterCall \/ pc = "failed"
          /\ calls = 1
          /\ results.kind = "result"
          /\ completed.ran /\ completed.returncode = 0
    /\ (completed.ran /\ completed.returncode # 0) =>
          /\ results = NoResults
          /\ lfs = LocalFS0 /\ out = <<>> /\ err = <<>>
    /\ ~AfterCall => (lfs = LocalFS0 /\ out = <<>> /\ err = <<>>)

C5_Witness ==
    /\ pc = "failed" /\ completed.ran /\ completed.returncode = 1
    /\ produced["mean"] # None
    /\ IsFile(wfs, PlotsPath \o <<"sub", "b">>)
    /\ TruthyPath(args.output_path) /\ lfs = LocalFS0

\* C7: after a zero exit code "files" has exactly the keys mean, per_res and
\* per_segment; each value is the bytes of outputs/<name> when a name was
\* requested and that file exists, and absent otherwise; no error was raised for
\* a missing file; and once main is done, a requested local path whose identifier
\* came back absent (and that no other identifier was written to) is as it was.
C7_MissingOutputsAreAbsent ==
    (completed.ran /\ completed.returncode = 0) =>
        /\ raised = NoError
        /\ DOMAIN results.files = Ids
        /\ \A k \in Ids :
              LET name == OutputName(LocalPath(args, k))
              IN  results.files[k] =
                      IF TruthyName(name) /\ IsFile(wfs, OutputsPath \o <<name[1]>>)
                      THEN Some(wfs.files[OutputsPath \o <<name[1]>>].data)
                      ELSE None
        /\ pc = "done" =>
              \A k \in Ids :
                  LET p == LocalPath(args, k)
                  IN  (/\ TruthyPath(p)
                       /\ \A j \in Ids : LocalPath(args, j) = p => results.files[j] = None)
                          => /\ IsFile(lfs, p[1]) = IsFile(LocalFS0, p[1])
                             /\ IsFile(lfs, p[1]) => lfs.files[p[1]] = LocalFS0.files[p[1]]

C7_Witness ==
    /\ pc = "done"
    /\ args.output_path = Some(<<"a", "x">>) /\ results.files["mean"] # None
    /\ args.per_res_output = Some(<<"a", "y">>) /\ results.files["per_res"] = None
    /\ args.per_segment_output = Some(<<"b", "x">>)
    /\ lfs.files[<<"a", "y">>] = <<0>>

(***************************************************************************)
(* SpecWriteBack: main from line 286 on, for any result dictionary the     *)
(* remote call may hand back and any local path arguments ("" included).   *)
(***************************************************************************)
WriteBackPaths == {None, Some(<<>>), Some(<<"a", "x">>)}
WriteBackPlotDirs == {None, Some(<<>>), Some(<<"p">>)}
WriteBackPlots ==
    {<<>>, << <<PathStr(<<"a">>), <<1>>>>, <<PathStr(<<"sub", "b">>), <<>>>> >>}

InitWriteBack ==
    /\ pc = "write_mean"
    /\ args \in [fasta_path : {FastaFile}, output_path : WriteBackPaths,
                 per_res_output : WriteBackPaths, per_segment_output : WriteBackPaths,
                 plot_dir : WriteBackPlotDirs]
    /\ lfs = LocalFS0
    /\ out = <<>> /\ err = <<>>
    /\ results \in [kind : {"result"}, stdout : {<<"o", "k">>}, stderr : {<<>>},
                    files : [Ids -> {None} \cup {Some(b) : b \in Blobs}],
                    plots : WriteBackPlots]
    /\ raised = NoError
    /\ calls = 1
    /\ wfs = WorkerFS0
    /\ completed = [ran |-> TRUE, returncode |-> 0, stdout |-> results.stdout,
                    stderr |-> results.stderr]
    /\ produced = [k \in Ids |-> None]
    /\ WorkerIdle /\ GpuIdle /\ PlotIdle

NextWriteBack ==
    \/ MainWriteMean
    \/ MainWritePerRes
    \/ MainWritePerSegment
    \/ MainWritePlots
    \/ MainEmit

SpecWriteBack == InitWriteBack /\ [][NextWriteBack]_vars

\* The position of main at which identifier k is written back.
WritePc(k) ==
    IF k = "mean" THEN "write_mean"
    ELSE IF k = "per_res" THEN "write_per_res"
    ELSE "write_per_segment"

\* C4: the write-back of an output identifier whose local path was not given
\* (None or "") leaves the local file system as it is, and so does the write-back
\* of the plots when plot_dir was not given, whatever the result carries for them.
C4_UnrequestedNotWritten ==
    [][((\E k \in Ids : pc = WritePc(k) /\ ~TruthyPath(LocalPath(args, k)))
        \/ (pc = "write_plots" /\ ~TruthyPath(args.plot_dir)))
       => lfs' = lfs]_vars

C4_Witness ==
    /\ pc = "emit"
    /\ args.output_path = None /\ results.files["mean"] = Some(<<1>>)
    /\ args.per_res_output = Some(<<>>) /\ results.files["per_res"] = Some(<<>>)
    /\ args.per_segment_output = None /\ results.files["per_segment"] # None
    /\ args.plot_dir = None /\ results.plots # <<>>
    /\ lfs = LocalFS0

(***************************************************************************)
(* SpecGpu: the module-level GPU_CONFIG = _gpu_from_env() (lines 33-48),   *)
(* for the values of the GPU environment variable over GpuAlphabet.        *)
(***************************************************************************)
GpuAlphabet == {"A", "a", "G", "g", "H", "h", "L", "l", "0", "1", "4"}
GpuValues == UNION {[1..n -> GpuAlphabet] : n \in 0..MaxGpuLen}

\* str.upper(), character by character.
UpperChar(c) ==
    IF c = "a" THEN "A"
    ELSE IF c = "g" THEN "G"
    ELSE IF c = "h" THEN "H"
    ELSE IF c = "l" THEN "L"
    ELSE c
Upper(t) == [i \in 1..Len(t) |-> UpperChar(t[i])]

\* os.environ.get("GPU", "")
EnvGet(env) == IF env = None THEN <<>> ELSE env[1]

\* _gpu_from_env without the call of upper().
GpuFromEnvCaseSensitive(env) ==
    IF EnvGet(env) = <<"A", "1", "0", "G">> THEN Some("A10G")
    ELSE IF EnvGet(env) = <<"A", "1", "0", "0">> THEN Some("A100")
    ELSE IF EnvGet(env) = <<"H", "1", "0", "0">> THEN Some("H100")
    ELSE IF EnvGet(env) = <<"L", "4">> THEN Some("L4")
    ELSE None

_gpu_from_env(env) ==
    IF Upper(EnvGet(env)) = <<"A", "1", "0", "G">> THEN Some("A10G")
    ELSE IF Upper(EnvGet(env)) = <<"A", "1", "0", "0">> THEN Some("A100")
    ELSE IF Upper(EnvGet(env)) = <<"H", "1", "0", "0">> THEN Some("H100")
    ELSE IF Upper(EnvGet(env)) = <<"L", "4">> THEN Some("L4")
    ELSE None

InitGpu ==
    /\ pc = "import"
    /\ gpu_env \in {None} \cup {Some(v) : v \in GpuValues}
    /\ GPU_CONFIG = None
    /\ args = <<>> /\ lfs = <<>> /\ out = <<>> /\ err = <<>>
    /\ results = NoResults /\ raised = NoError /\ calls = 0 /\ wfs = <<>>
    /\ completed = NotRun /\ produced = <<>>
    /\ WorkerIdle /\ PlotIdle

\* line 48.
ModuleImport ==
    /\ pc = "import"
    /\ GPU_CONFIG' = _gpu_from_env(gpu_env)
    /\ pc' = "imported"
    /\ UNCHANGED <<args, lfs, out, err, results, raised, calls, wfs, completed,
                   produced, gpu_env>>
    /\ UNCHANGED <<workerVars, plotVars>>

NextGpu == ModuleImport

SpecGpu == InitGpu /\ [][NextGpu]_vars

\* The four GPU names, as the strings the code compares with.
GpuSpelling ==
    [A10G |-> <<"A", "1", "0", "G">>, A100 |-> <<"A", "1", "0", "0">>,
     H100 |-> <<"H", "1", "0", "0">>, L4 |-> <<"L", "4">>]
GpuNames == {GpuSpelling[n] : n \in DOMAIN GpuSpelling}

\* C6, as claimed: every value that is not one of the strings A10G, A100, H100,
\* L4 (unset and empty included, whatever its letter case) resolves to no GPU.
C6_OtherValuesResolveToNone ==
    (pc = "imported" /\ (gpu_env = None \/ gpu_env[1] \notin GpuNames))
        => GPU_CONFIG = None

\* Two texts that differ at most in the case of their letters.
SameLetter(c, d) ==
    \/ c = d
    \/ {c, d} \in {{"A", "a"}, {"G", "g"}, {"H", "h"}, {"L", "l"}}
EqualIgnoringCase(t, u) ==
    Len(t) = Len(u) /\ \A i \in 1..Len(t) : SameLetter(t[i], u[i])

\* C6, amended: a value resolves to no GPU exactly when it is unset or equals
\* none of A10G, A100, H100, L4 ignoring letter case; a value that equals one of
\* the four ignoring case resolves to that GPU.
C6_ResolvesIgnoringCase ==
    pc = "imported" =>
        /\ (gpu_env = None \/ \A n \in GpuNames : ~EqualIgnoringCase(gpu_env[1], n))
              => GPU_CONFIG = None
        /\ \A n \in DOMAIN GpuSpelling :
              (gpu_env # None /\ EqualIgnoringCase(gpu_env[1], GpuSpelling[n]))
                  => GPU_CONFIG = Some(n)

C6_Witness ==
    /\ pc = "imported"
    /\ gpu_env = Some(<<"a", "1", "0", "g">>)
    /\ GPU_CONFIG = Some("A10G")

(***************************************************************************)
(* SpecPlots: _gather_plot_files (lines 117-128) on directory trees with   *)
(* files and directories down to depth three, the plot directory absent,   *)
(* or a regular file in its place; rglob may yield the paths in any order. *)
(***************************************************************************)
ScratchFS == Mkdir(WorkerFS0, REMOTE_FASTA_DIR)
FileChoices == {None} \cup {Some(b) : b \in Blobs}

FileAt(p, f) == IF f = None THEN <<>> ELSE (p :> [data |-> f[1], inv |-> 1])

\* The tree with the files a, sub/b, sub/c/a (each present or not) and, when
\* asked for, the directories a, sub and sub/c even if nothing is in them.
PlotTree(fa, fb, fc, da, ds, dc) ==
    [dirs  |-> ScratchFS.dirs \cup {PlotsPath}
               \cup (IF da /\ fa = None THEN {PlotsPath \o <<"a">>} ELSE {})
               \cup (IF ds \/ dc \/ fb # None \/ fc # None
                     THEN {PlotsPath \o <<"sub">>} ELSE {})
               \cup (IF dc \/ fc # None THEN {PlotsPath \o <<"sub", "c">>} ELSE {}),
     files |-> FileAt(PlotsPath \o <<"a">>, fa)
               @@ FileAt(PlotsPath \o <<"sub", "b">>, fb)
               @@ FileAt(PlotsPath \o <<"sub", "c", "a">>, fc)]

PlotTrees ==
    {PlotTree(fa, fb, fc, da, ds, dc) :
        fa \in FileChoices, fb \in FileChoices, fc \in FileChoices,
        da \in BOOLEAN, ds \in BOOLEAN, dc \in BOOLEAN}
    \cup {ScratchFS}
    \cup {[ScratchFS EXCEPT !.files = (PlotsPath :> [data |-> <<1>>, inv |-> 1])]}

InitPlots ==
    /\ pc = "gather"
    /\ plot_tree \in PlotTrees
    /\ listing = <<>>
    /\ entries = <<>>
    /\ args = <<>> /\ lfs = <<>> /\ out = <<>> /\ err = <<>>
    /\ results = NoResults /\ raised = NoError /\ calls = 0 /\ wfs = <<>>
    /\ completed = NotRun /\ produced = <<>>
    /\ WorkerIdle /\ GpuIdle

\* One call of _gather_plot_files(plots_path).
Gather ==
    /\ pc = "gather"
    /\ \E y \in Orders(Descendants(plot_tree, PlotsPath)) :
          /\ listing' = y
          /\ entries' = _gather_plot_files(plot_tree, PlotsPath, y)
    /\ pc' = "gathered"
    /\ UNCHANGED <<args, lfs, out, err, results, raised, calls, wfs, completed,
                   produced, plot_tree>>
    /\ UNCHANGED <<workerVars, gpuVars>>

NextPlots == Gather

SpecPlots == InitPlots /\ [][NextPlots]_vars

\* C8: the list returned has exactly one entry (relative path, bytes) for every
\* regular file at any depth below plot_dir and no other entry, the entries are
\* in strictly increasing order of their paths whatever order the directory scan
\* yielded them in, and a plot_dir that does not exist gives the empty list.
C8_PlotDiscovery ==
    pc = "gathered" =>
        /\ ~Exists(plot_tree, PlotsPath) => entries = <<>>
        /\ {entries[i] : i \in 1..Len(entries)}
              = {<<PathStr(RelativeTo(p, PlotsPath)), plot_tree.files[p].data>> :
                    p \in FilesBelow(plot_tree, PlotsPath)}
        /\ Len(entries) = Cardinality(FilesBelow(plot_tree, PlotsPath))
        /\ \A i, j \in 1..Len(entries) :
              i < j => PathLess(PathOf(entries[i][1]), PathOf(entries[j][1]))

C8_Witness ==
    /\ pc = "gathered"
    /\ Len(entries) = 3
    /\ entries[3][1] = <<"sub", "/", "c", "/", "a">>
    /\ listing[1] = PlotsPath \o <<"sub", "c", "a">>
    /\ IsDir(plot_tree, PlotsPath \o <<"sub", "c">>)

(***************************************************************************)
(* SpecWorker: invocations of run_temstapro on one worker, numbered in the *)
(* order they start.  The platform lets `limit` of them be in flight: with *)
(* limit = 1 they do not overlap, with limit = 2 their steps interleave on *)
(* the one scratch directory.  No step takes a lock.  A slot holds the     *)
(* state of one activation of the function, and what it returned until the *)
(* slot is used again.                                                     *)
(***************************************************************************)
Slots == {1, 2}

WorkerKwargs ==
    {[fasta_bytes |-> <<1>>, fasta_name |-> "p.fasta", include_plots |-> ip,
      names |-> [mean |-> m, per_res |-> None, per_segment |-> None]] :
        ip \in BOOLEAN, m \in {None, Some("x")}}

WorkerOutcomes(cmd) ==
    [rc : {0, 1}, stdout : {<<>>}, stderr : {<<"w">>},
     made : {m \in [Ids -> {None, Some(<<1>>)}] :
                \A k \in Ids : cmd.output[k] = None => m[k] = None},
     order : {<<"mean", "per_res", "per_segment">>},
     plots : IF cmd.plot_dir = None THEN {<<>>}
             ELSE {<<>>, (<<"a">> :> <<1>>) @@ (<<"sub", "b">> :> <<>>)}]

Running(p) == wpc[p] \in {"prepare", "stage", "run", "finish"}
InFlight == {p \in Slots : Running(p)}

WorkerCmd(p) ==
    Cmd(wkw[p], REMOTE_FASTA_DIR \o <<wkw[p].fasta_name>>, OutputsPath, PlotsPath)

NoWrote == [k \in Ids |-> None]

InitWorker ==
    /\ wpc = [p \in Slots |-> "idle"]
    /\ wid = [p \in Slots |-> 0]
    /\ wkw = [p \in Slots |-> <<>>]
    /\ wcompleted = [p \in Slots |-> NotRun]
    /\ wret = [p \in Slots |-> <<>>]
    /\ wwrote = [p \in Slots |-> NoWrote]
    /\ wstale = [p \in Slots |-> {}]
    /\ winv = 0
    /\ limit \in {1, 2}
    /\ wfs = WorkerFS0
    /\ pc = "idle" /\ args = <<>> /\ lfs = <<>> /\ out = <<>> /\ err = <<>>
    /\ results = NoResults /\ raised = NoError /\ calls = 0
    /\ completed = NotRun /\ produced = <<>>
    /\ GpuIdle /\ PlotIdle

WorkerFrame ==
    /\ UNCHANGED <<pc, args, lfs, out, err, results, raised, calls, completed, produced>>
    /\ UNCHANGED <<gpuVars, plotVars, limit>>

\* The platform hands the next invocation to the worker, in the first free slot.
Invoke(p) ==
    /\ ~Running(p)
    /\ \A q \in Slots : q < p => Running(q)
    /\ winv < MaxInvocations
    /\ Cardinality(InFlight) < limit
    /\ \E kw \in WorkerKwargs : wkw' = [wkw EXCEPT ![p] = kw]
    /\ wpc' = [wpc EXCEPT ![p] = "prepare"]
    /\ winv' = winv + 1
    /\ wid' = [wid EXCEPT ![p] = winv + 1]
    /\ wcompleted' = [wcompleted EXCEPT ![p] = NotRun]
    /\ wret' = [wret EXCEPT ![p] = <<>>]
    /\ wwrote' = [wwrote EXCEPT ![p] = NoWrote]
    /\ wstale' = [wstale EXCEPT ![p] = FilesBelow(wfs, REMOTE_FASTA_DIR)]
    /\ UNCHANGED wfs
    /\ WorkerFrame

\* lines 156-157: _env_prepare and _prepare_workdir.
Prepare(p) ==
    /\ wpc[p] = "prepare"
    /\ wfs' = _prepare_workdir(_env_prepare(wfs), wkw[p].fasta_name).fs
    /\ wpc' = [wpc EXCEPT ![p] = "stage"]
    /\ UNCHANGED <<wid, wkw, wcompleted, wret, wwrote, wstale, winv>>
    /\ WorkerFrame

\* line 158.
Stage(p) ==
    /\ wpc[p] = "stage"
    /\ IF WriteOk(wfs, WorkerCmd(p).f)
       THEN /\ wfs' = WriteBytes(wfs, WorkerCmd(p).f,
                                 [data |-> wkw[p].fasta_bytes, inv |-> wid[p]])
            /\ wpc' = [wpc EXCEPT ![p] = "run"]
            /\ wret' = wret
       ELSE /\ wfs' = wfs
            /\ wpc' = [wpc EXCEPT ![p] = "raised"]
            /\ wret' = [wret EXCEPT ![p] = [raised |-> [type |-> "FileNotFoundError"],
                                            result |-> NoResults]]
    /\ UNCHANGED <<wid, wkw, wcompleted, wwrote, wstale, winv>>
    /\ WorkerFrame

\* lines 160-205.
Run(p) ==
    /\ wpc[p] = "run"
    /\ \E cmd \in {WorkerCmd(p)} : \E o \in WorkerOutcomes(cmd) :
         \E t \in {ToolRun(wfs, cmd, o, wid[p])} :
            /\ wfs' = t.fs
            /\ wcompleted' = [wcompleted EXCEPT ![p] = t.completed]
            /\ wwrote' = [wwrote EXCEPT ![p] = ToolWrote(wfs, cmd, o)]
    /\ wpc' = [wpc EXCEPT ![p] = "finish"]
    /\ UNCHANGED <<wid, wkw, wret, wstale, winv>>
    /\ WorkerFrame

\* The invocation that wrote each file a result is made of.
Origin(fs, cmd, kw, yielded) ==
    [files |-> [k \in Ids |-> IF CollectFiles(fs, cmd.output)[k] = None THEN None
                              ELSE Some(CollectFiles(fs, cmd.output)[k][1].inv)],
     plots |-> IF kw.include_plots
               THEN {e[2].inv : e \in {GatherFiles(fs, PlotsPath, yielded)[n] :
                                          n \in 1..Len(GatherFiles(fs, PlotsPath, yielded))}}
               ELSE {}]

\* lines 207-228.
Finish(p) ==
    /\ wpc[p] = "finish"
    /\ \E cmd \in {WorkerCmd(p)} : \E y \in Orders(Descendants(wfs, PlotsPath)) :
         \E r \in {Returned(wfs, cmd, wkw[p], wcompleted[p], y)} :
            /\ wret' = [wret EXCEPT ![p] =
                          IF r.raised = NoError
                          THEN [raised |-> r.raised, result |-> r.result,
                                origin |-> Origin(wfs, cmd, wkw[p], y)]
                          ELSE [raised |-> r.raised, result |-> r.result]]
            /\ wpc' = [wpc EXCEPT ![p] = IF r.raised = NoError THEN "returned" ELSE "raised"]
    /\ UNCHANGED <<wfs, wid, wkw, wcompleted, wwrote, wstale, winv>>
    /\ WorkerFrame

NextWorker ==
    \E p \in Slots :
        \/ Invoke(p)
        \/ Prepare(p)
        \/ Stage(p)
        \/ Run(p)
        \/ Finish(p)

SpecWorker == InitWorker /\ [][NextWorker]_vars

\* C9: when invocations do not overlap, every file and plot a successful
\* invocation returns was written during that invocation: from the staging of
\* the input on, the scratch directory holds nothing an earlier invocation
\* left (input, outputs, plots).
C9_NoStaleArtifacts ==
    limit = 1 =>
        \A p \in Slots :
            /\ wpc[p] \in {"stage", "run", "finish", "returned", "raised"} =>
                  \A f \in FilesBelow(wfs, REMOTE_FASTA_DIR) : wfs.files[f].inv = wid[p]
            /\ wpc[p] = "returned" =>
                  /\ \A k \in Ids : wret[p].origin.files[k] \in {None, Some(wid[p])}
                  /\ wret[p].origin.plots \subseteq {wid[p]}

C9_Witness ==
    /\ limit = 1 /\ wpc[1] = "returned" /\ wid[1] = 2
    /\ {OutputsPath \o <<"x">>, PlotsPath \o <<"a">>, PlotsPath \o <<"sub", "b">>}
          \subseteq wstale[1]
    /\ wkw[1].names["mean"] = Some("x") /\ wkw[1].include_plots
    /\ wret[1].result.files["mean"] = None
    /\ wret[1].result.plots = <<>>

\* C10: with at most one invocation in flight, a file an invocation requested
\* and its own tool wrote is returned with the bytes that tool wrote (never
\* absent, never another invocation's).  (With two in flight the state of
\* C10_Witness is reached.)
C10_SerialInvocationsReturnOwnOutputs ==
    limit = 1 =>
        \A p \in Slots :
            wpc[p] = "returned" =>
                \A k \in Ids :
                    wwrote[p][k] # None
                        => /\ wret[p].origin.files[k] = Some(wid[p])
                           /\ wret[p].result.files[k] = wwrote[p][k]

\* Two interleaved invocations: one returns, for the file it requested and its
\* own tool wrote, the content the other invocation's tool wrote.
C10_Witness ==
    /\ limit = 2
    /\ \E p, q \in Slots :
          /\ p # q /\ wpc[p] = "returned"
          /\ wkw[p].names["mean"] = Some("x") /\ wwrote[p]["mean"] # None
          /\ wret[p].origin.files["mean"] = Some(wid[q])

\* The other outcome of the interleaving: the file is returned as absent.
C10_WitnessAbsent ==
    /\ limit = 2
    /\ \E p \in Slots :
          /\ wpc[p] = "returned"
          /\ wkw[p].names["mean"] = Some("x") /\ wwrote[p]["mean"] # None
          /\ wret[p].result.files["mean"] = None

====
